---- MODULE Spec2Model ----
(***************************************************************************)
(* A model of the Chinese text annotation code of learn-chinese:           *)
(*   - js/api.js        mockProcessTextResponse (synchronous mock)          *)
(*   - server/app.js    POST /api/process, processChineseText,              *)
(*                      checkIfChengyu (asynchronous pipeline)              *)
(*   - the bulk-pinyin variant of processChineseText (getPinyinArray,       *)
(*     processTextWithPinyin)                                               *)
(*   - js/api.js        the page: the process button, processText with its  *)
(*                      fallback to the mock, renderProcessedText           *)
(*                                                                         *)
(* A JavaScript string is a sequence of characters; a character is a       *)
(* string naming it (the module text is ASCII): "YI" is U+4E00,            *)
(* "XIN" U+5FC3, "YI_IDEA" U+610F, "REN" U+4EBA, and so on.  Indices of    *)
(* the JavaScript code are 0-based and kept 0-based here; CharAt(s, i)     *)
(* is s[i] of the code.                                                    *)
(***************************************************************************)
EXTENDS Integers, Sequences, FiniteSets, TLC

VARIABLES
    text,        \* the input text of the run
    mockOuts,    \* what the calls of mockProcessTextResponse(text) returned, oldest first
    serverOut,   \* what processChineseText(text), run to completion, resolved with (at most one)
    bulkOut,     \* what the bulk-pinyin processChineseText(text) resolved with (at most one)
    failing,     \* the character the pinyin library throws on (bulk variant), or NoChar
    variant,     \* the processChineseText the handler awaits: "perChar" (server/app.js)
                 \* or "bulk" (the bulk-pinyin variant)
    pc,          \* the POST handler: "idle", or "running" while processChineseText is awaited
    tasks,       \* per paragraph of the request in flight: the state of its async callback
    history,     \* the HTTP responses of the completed requests, oldest first
    calls,       \* the page's processChineseText calls, oldest first: each one's text and
                 \* position, the response it got and what processText settled with
    pane,        \* readingContent: what the reading pane shows
    highlight    \* highlightChengyu.checked

clientVars == <<calls, pane, highlight>>

vars == <<text, mockOuts, serverOut, bulkOut, failing, variant, pc, tasks, history,
          calls, pane, highlight>>

\* null / undefined (an empty sequence, so that it compares with strings of characters)
Null == <<>>
NoChar == "NoChar"

(***************************************************************************)
(* Characters                                                              *)
(***************************************************************************)
NL == "\n"
SP == " "
YI == "YI"                 \* U+4E00
XIN == "XIN"               \* U+5FC3
YI_IDEA == "YI_IDEA"       \* U+610F
BU == "BU"                 \* U+4E0D
KE == "KE"                 \* U+53EF
SI == "SI"                 \* U+601D
YI_DISCUSS == "YI_DISCUSS" \* U+8BAE
RU == "RU"                 \* U+5165
XIANG == "XIANG"           \* U+4E61
SUI == "SUI"               \* U+968F
SU == "SU"                 \* U+4FD7
ZI == "ZI"                 \* U+81EA
YAN == "YAN"               \* U+8A00
YU == "YU"                 \* U+8BED
SI_FOUR == "SI_FOUR"       \* U+56DB
MIAN == "MIAN"             \* U+9762
BA == "BA"                 \* U+516B
FANG == "FANG"             \* U+65B9
QIAN == "QIAN"             \* U+5343
BIAN == "BIAN"             \* U+53D8
WAN == "WAN"               \* U+4E07
HUA == "HUA"               \* U+5316
WU == "WU"                 \* U+65E0
YOU == "YOU"               \* U+5FE7
LV == "LV"                 \* U+8651
ZHI == "ZHI"               \* U+77E5
JUE == "JUE"               \* U+89C9
REN == "REN"               \* U+4EBA
SHI == "SHI"               \* U+662F

(***************************************************************************)
(* Bounds of the model                                                     *)
(***************************************************************************)
MaxLen == 5        \* longest input text of the function-application runs
AsyncMaxLen == 4   \* longest input text of the interleaved server runs
MaxCalls == 2      \* calls made with the same text
MaxClicks == 2     \* clicks of the process button that start a call

Alphabet == {YI, XIN, YI_IDEA, REN, SP, NL}
AsyncAlphabet == {REN, BU, SP, NL}

RECURSIVE SeqsUpTo(_, _)
SeqsUpTo(S, n) ==
    IF n = 0 THEN {<<>>}
    ELSE LET shorter == SeqsUpTo(S, n - 1)
         IN  shorter \cup {Append(s, c) : s \in {t \in shorter : Len(t) = n - 1}, c \in S}

Texts == SeqsUpTo(Alphabet, MaxLen)
AsyncTexts == SeqsUpTo(AsyncAlphabet, AsyncMaxLen)

(***************************************************************************)
(* JavaScript string functions                                             *)
(***************************************************************************)
CharAt(s, i) == s[i + 1]

\* s.substring(a, b) for 0 <= a <= b <= s.length
substring(s, a, b) == [k \in 1..(b - a) |-> s[a + k]]

\* String.prototype.trim's white space, as far as the alphabets have it
IsWhitespace(c) == c \in {SP, NL}

RECURSIVE trimStart(_)
trimStart(s) ==
    IF s # <<>> /\ IsWhitespace(Head(s)) THEN trimStart(Tail(s)) ELSE s

RECURSIVE trimEnd(_)
trimEnd(s) ==
    IF s # <<>> /\ IsWhitespace(s[Len(s)]) THEN trimEnd(SubSeq(s, 1, Len(s) - 1)) ELSE s

trim(s) == trimEnd(trimStart(s))

\* text.split(/\n+/): the pieces between the maximal runs of newlines; a run at
\* the start or the end leaves an empty piece there, and "" splits into [""].
RECURSIVE splitFrom(_, _, _, _)
splitFrom(s, i, cur, acc) ==
    IF i > Len(s) THEN Append(acc, cur)
    ELSE IF s[i] = NL
         THEN IF i > 1 /\ s[i - 1] = NL
              THEN splitFrom(s, i + 1, cur, acc)
              ELSE splitFrom(s, i + 1, <<>>, Append(acc, cur))
         ELSE splitFrom(s, i + 1, Append(cur, s[i]), acc)

split(s) == splitFrom(s, 1, <<>>, <<>>)

keepParagraph(p) == Len(trim(p)) > 0

\* text.split(/\n+/).filter(p => p.trim().length > 0)
splitParagraphs(s) == SelectSeq(split(s), keepParagraph)

\* s.indexOf(t, from): the least index >= from where t occurs in s, or -1
RECURSIVE indexOf(_, _, _)
indexOf(s, t, from) ==
    IF from + Len(t) > Len(s) THEN -1
    ELSE IF substring(s, from, from + Len(t)) = t THEN from
    ELSE indexOf(s, t, from + 1)

includes(s, t) == indexOf(s, t, 0) # -1

\* paragraph.indexOf(c) for one character c
firstIndexOf(s, c) == indexOf(s, <<c>>, 0)

RECURSIVE Concat(_)
Concat(ss) == IF ss = <<>> THEN <<>> ELSE Head(ss) \o Concat(Tail(ss))

(***************************************************************************)
(* The sample idiom list (the same in the mock and in checkIfChengyu)      *)
(***************************************************************************)
sampleChengyu ==
    << <<YI, XIN, YI, YI_IDEA>>, <<BU, KE, SI, YI_DISCUSS>>,
       <<RU, XIANG, SUI, SU>>,   <<ZI, YAN, ZI, YU>>,
       <<SI_FOUR, MIAN, BA, FANG>>, <<QIAN, BIAN, WAN, HUA>>,
       <<WU, YOU, WU, LV>>,      <<BU, ZHI, BU, JUE>> >>

(***************************************************************************)
(* js/api.js: the mock                                                     *)
(***************************************************************************)
\* mockPinyinMap[char] || 'pinyin' (tone marks written as tone numbers)
getMockPinyin(c) ==
    CASE c = YI  -> "yi1"
      [] c = REN -> "ren2"
      [] c = BU  -> "bu4"
      [] c = SHI -> "shi4"
      [] OTHER   -> "pinyin"

\* mockTranslationMap[char] || 'translation'
getMockTranslation(c) ==
    CASE c = YI  -> "one"
      [] c = REN -> "person"
      [] c = BU  -> "no/not"
      [] c = SHI -> "is/am/are"
      [] OTHER   -> "translation"

\* the while loop: every index where cy occurs, ascending (occurrences may overlap)
RECURSIVE indicesFrom(_, _, _)
indicesFrom(paragraph, cy, index) ==
    IF index = -1 THEN <<>>
    ELSE <<index>> \o indicesFrom(paragraph, cy, indexOf(paragraph, cy, index + 1))

indices(paragraph, cy) == indicesFrom(paragraph, cy, indexOf(paragraph, cy, 0))

\* the charInfo pushed for character i of the occurrence of cy at startIdx
chengyuCharInfo(paragraph, cy, startIdx, i) ==
    [text |-> CharAt(paragraph, startIdx + i),
     pinyin |-> getMockPinyin(CharAt(paragraph, startIdx + i)),
     translation |-> getMockTranslation(CharAt(paragraph, startIdx + i)),
     isChengyu |-> TRUE,
     chengyuComplete |-> IF i = Len(cy) - 1 THEN cy ELSE Null]

\* the charInfo pushed for a character outside every idiom (it has no
\* chengyuComplete property: Null stands for undefined)
plainCharInfo(c) ==
    [text |-> c,
     pinyin |-> getMockPinyin(c),
     translation |-> getMockTranslation(c),
     isChengyu |-> FALSE,
     chengyuComplete |-> Null]

\* sampleChengyu.forEach(cy => ...): the segments pushed for one idiom
chengyuSegmentsOf(paragraph, cy) ==
    IF includes(paragraph, cy)
    THEN LET idx == indices(paragraph, cy)
         IN  Concat([n \in 1..Len(idx) |->
                        [k \in 1..Len(cy) |-> chengyuCharInfo(paragraph, cy, idx[n], k - 1)]])
    ELSE <<>>

chengyuSegments(paragraph) ==
    Concat([n \in 1..Len(sampleChengyu) |-> chengyuSegmentsOf(paragraph, sampleChengyu[n])])

\* segments.some(s => s.text === c && s.isChengyu)
alreadyProcessed(segments, c) ==
    \E n \in 1..Len(segments) : segments[n].text = c /\ segments[n].isChengyu

\* the for loop over the remaining characters, from index i on
RECURSIVE remainingFrom(_, _, _)
remainingFrom(paragraph, i, segments) ==
    IF i >= Len(paragraph) THEN segments
    ELSE IF alreadyProcessed(segments, CharAt(paragraph, i))
         THEN remainingFrom(paragraph, i + 1, segments)
         ELSE remainingFrom(paragraph, i + 1,
                            Append(segments, plainCharInfo(CharAt(paragraph, i))))

\* segments.sort((a, b) => paragraph.indexOf(a.text) - paragraph.indexOf(b.text)):
\* a stable sort by the first index of the segment's character value
\* (segments of equal key have the same character, and with this idiom list the
\* same fields, so an unstable sort would return the same sequence)
sortByFirstIndex(paragraph, segments) ==
    Concat([k \in 1..Len(paragraph) |->
              SelectSeq(segments, LAMBDA s : firstIndexOf(paragraph, s.text) = k - 1)])

mockParagraph(paragraph) ==
    [text |-> paragraph,
     segments |-> sortByFirstIndex(paragraph,
                      remainingFrom(paragraph, 0, chengyuSegments(paragraph)))]

mockProcessTextResponse(t) ==
    LET paragraphs == splitParagraphs(t)
    IN  [original |-> t,
         paragraphs |-> [k \in 1..Len(paragraphs) |-> mockParagraph(paragraphs[k])]]

(***************************************************************************)
(* server/app.js: the lookups and processChineseText run to completion     *)
(***************************************************************************)
\* the prototype's getPinyin resolves with the same placeholder for every character
getPinyin(c) == "pi1nyi1n"

getTranslation(c) == "translation"

\* true exactly when an idiom of the list starts at position
checkIfChengyu(t, position) ==
    \E n \in 1..Len(sampleChengyu) :
        LET chengyu == sampleChengyu[n]
        IN  /\ position + Len(chengyu) <= Len(t)
            /\ substring(t, position, position + Len(chengyu)) = chengyu

\* the object pushed by iteration i of the for loop
segmentAt(paragraph, i) ==
    [text |-> CharAt(paragraph, i),
     pinyin |-> getPinyin(CharAt(paragraph, i)),
     translation |-> getTranslation(CharAt(paragraph, i)),
     isChengyu |-> checkIfChengyu(paragraph, i)]

\* what the async callback of paragraphs.map resolves with
processParagraph(paragraph) ==
    [text |-> paragraph,
     segments |-> [n \in 1..Len(paragraph) |-> segmentAt(paragraph, n - 1)]]

processChineseText(t) ==
    LET paragraphs == splitParagraphs(t)
    IN  [original |-> t,
         paragraphs |-> [k \in 1..Len(paragraphs) |-> processParagraph(paragraphs[k])]]

(***************************************************************************)
(* The bulk-pinyin variant: getPinyinArray, processTextWithPinyin          *)
(***************************************************************************)
\* The pinyin library, called on a whole paragraph: it throws when it cannot
\* convert a character of it (f is that character, NoChar when there is none).
pinyinThrows(t, f) == \E k \in 1..Len(t) : t[k] = f

\* what the library returns for one character when it does not throw
pinyinOf(c) ==
    CASE c = YI      -> "yi1"
      [] c = XIN     -> "xin1"
      [] c = YI_IDEA -> "yi4"
      [] c = REN     -> "ren2"
      [] c = BU      -> "bu4"
      [] OTHER       -> c

getPinyinArray(t, f) ==
    IF pinyinThrows(t, f)
    THEN [k \in 1..Len(t) |-> "error"]
    ELSE [k \in 1..Len(t) |-> pinyinOf(t[k])]

processTextWithPinyin(paragraph, f) ==
    LET characters == paragraph
        pinyinArray == getPinyinArray(paragraph, f)
    IN  [index \in 1..Len(characters) |->
            [text |-> characters[index], pinyin |-> pinyinArray[index]]]

\* the callback of the bulk variant: the segments of processTextWithPinyin,
\* each then given its translation and its isChengyu
processParagraphBulk(paragraph, f) ==
    LET segments == processTextWithPinyin(paragraph, f)
    IN  [text |-> paragraph,
         segments |-> [n \in 1..Len(segments) |->
                          [text |-> segments[n].text,
                           pinyin |-> segments[n].pinyin,
                           translation |-> getTranslation(segments[n].text),
                           isChengyu |-> checkIfChengyu(paragraph, n - 1)]]]

processChineseTextBulk(t, f) ==
    LET paragraphs == splitParagraphs(t)
    IN  [original |-> t,
         paragraphs |-> [k \in 1..Len(paragraphs) |-> processParagraphBulk(paragraphs[k], f)]]

(***************************************************************************)
(* Function applications: each pipeline applied to the input text          *)
(***************************************************************************)
\* the reading pane before the page's script has written to it
loadedPane == [kind |-> "loaded", content |-> <<>>]

InitState ==
    /\ mockOuts = <<>>
    /\ serverOut = <<>>
    /\ bulkOut = <<>>
    /\ pc = "idle"
    /\ tasks = <<>>
    /\ history = <<>>
    /\ calls = <<>>
    /\ pane = loadedPane

Init ==
    /\ text \in Texts
    /\ failing = NoChar
    /\ variant = "perChar"
    /\ highlight = TRUE
    /\ InitState

CallMock ==
    /\ Len(mockOuts) < MaxCalls
    /\ mockOuts' = Append(mockOuts, mockProcessTextResponse(text))
    /\ UNCHANGED <<text, serverOut, bulkOut, failing, variant, pc, tasks, history, clientVars>>

CallServer ==
    /\ serverOut = <<>>
    /\ serverOut' = <<processChineseText(text)>>
    /\ UNCHANGED <<text, mockOuts, bulkOut, failing, variant, pc, tasks, history, clientVars>>

CallBulk ==
    /\ bulkOut = <<>>
    /\ \E f \in {NoChar} \cup {text[k] : k \in 1..Len(text)} :
          /\ failing' = f
          /\ bulkOut' = <<processChineseTextBulk(text, f)>>
    /\ UNCHANGED <<text, mockOuts, serverOut, variant, pc, tasks, history, clientVars>>

Next == CallMock \/ CallServer \/ CallBulk

Spec == Init /\ [][Next]_vars

(***************************************************************************)
(* server/app.js: POST /api/process with the paragraphs' callbacks         *)
(* interleaved at their awaits                                             *)
(***************************************************************************)
\* Falsy with a fault injected: the check made on the trimmed text, !text.trim()
FalsyBlank(t) == trim(t) = <<>>

\* !text for a string: only the empty string is falsy
Falsy(t) == t = <<>>

noTextProvided == [status |-> 400, body |-> [error |-> "No text provided"]]

\* an async callback of paragraphs.map, run up to its first await: that of
\* getPinyin for character 0, or in the bulk variant that of
\* processTextWithPinyin for the whole paragraph
newTask(paragraph) ==
    [paragraph |-> paragraph, i |-> 0,
     at |-> IF variant = "perChar" THEN "getPinyin" ELSE "processTextWithPinyin",
     pinyin |-> "", translation |-> "", segments |-> <<>>]

\* pushSegment with a fault injected: segments declared outside the callback,
\* one array that the callbacks of all paragraphs push to
pushSegmentShared(ts, k, seg) ==
    [j \in 1..Len(ts) |-> [ts[j] EXCEPT !.segments = Append(@, seg)]]

\* segments.push(...) of the callback of paragraph k: segments is the
\* callback's own array
pushSegment(ts, k, seg) == [ts EXCEPT ![k].segments = Append(@, seg)]

\* the handler up to the await of processChineseText: the 400 answer, or the
\* callbacks of all paragraphs started, each suspended at its first await
Post ==
    /\ pc = "idle"
    /\ Len(history) < MaxCalls
    /\ IF Falsy(text)
       THEN /\ history' = Append(history, noTextProvided)
            /\ UNCHANGED <<pc, tasks>>
       ELSE LET paragraphs == splitParagraphs(text)
            IN  /\ tasks' = [k \in 1..Len(paragraphs) |-> newTask(paragraphs[k])]
                /\ pc' = "running"
                /\ UNCHANGED history
    /\ UNCHANGED <<text, mockOuts, serverOut, bulkOut, failing, variant, clientVars>>

\* the callback of paragraph k resumes from the await it is suspended at and
\* runs to the next one (or to its return)
TaskStep(k) ==
    /\ pc = "running"
    /\ variant = "perChar"
    /\ tasks[k].at # "done"
    /\ LET t == tasks[k]
           char == CharAt(t.paragraph, t.i)
       IN  CASE t.at = "getPinyin" ->
                  tasks' = [tasks EXCEPT ![k].pinyin = getPinyin(char),
                                         ![k].at = "getTranslation"]
             [] t.at = "getTranslation" ->
                  tasks' = [tasks EXCEPT ![k].translation = getTranslation(char),
                                         ![k].at = "checkIfChengyu"]
             [] t.at = "checkIfChengyu" ->
                  LET seg == [text |-> char, pinyin |-> t.pinyin,
                              translation |-> t.translation,
                              isChengyu |-> checkIfChengyu(t.paragraph, t.i)]
                      pushed == pushSegment(tasks, k, seg)
                  IN  tasks' = [pushed EXCEPT
                                   ![k].i = t.i + 1,
                                   ![k].pinyin = "",
                                   ![k].translation = "",
                                   ![k].at = IF t.i + 1 < Len(t.paragraph)
                                             THEN "getPinyin" ELSE "done"]
    /\ UNCHANGED <<text, mockOuts, serverOut, bulkOut, failing, variant, pc, history, clientVars>>

\* the callback of paragraph k in the bulk variant: first the segments of
\* processTextWithPinyin (text and pinyin of every character), then for each
\* segment in turn its translation and its isChengyu, assigned in place
BulkStep(k) ==
    /\ pc = "running"
    /\ variant = "bulk"
    /\ tasks[k].at # "done"
    /\ LET t == tasks[k]
           seg == t.segments[t.i + 1]
       IN  CASE t.at = "processTextWithPinyin" ->
                  tasks' = [tasks EXCEPT
                               ![k].segments = processTextWithPinyin(t.paragraph, failing),
                               ![k].at = "getTranslation"]
             [] t.at = "getTranslation" ->
                  tasks' = [tasks EXCEPT
                               ![k].segments[t.i + 1] =
                                   [text |-> seg.text, pinyin |-> seg.pinyin,
                                    translation |-> getTranslation(seg.text)],
                               ![k].at = "checkIfChengyu"]
             [] t.at = "checkIfChengyu" ->
                  tasks' = [tasks EXCEPT
                               ![k].segments[t.i + 1] =
                                   [text |-> seg.text, pinyin |-> seg.pinyin,
                                    translation |-> seg.translation,
                                    isChengyu |-> checkIfChengyu(t.paragraph, t.i)],
                               ![k].i = t.i + 1,
                               ![k].at = IF t.i + 1 < Len(t.segments)
                                         THEN "getTranslation" ELSE "done"]
    /\ UNCHANGED <<text, mockOuts, serverOut, bulkOut, failing, variant, pc, history, clientVars>>

\* processedParagraphs with a fault injected: a module-level result array that
\* is never cleared, the results of a request appended to those of the one before
processedParagraphsAccumulated ==
    (IF history # <<>> /\ history[Len(history)].status = 200
     THEN history[Len(history)].body.paragraphs ELSE <<>>)
    \o [k \in 1..Len(tasks) |-> [text |-> tasks[k].paragraph, segments |-> tasks[k].segments]]

\* what Promise.all resolves with: the callbacks' results in the order of the
\* paragraphs
processedParagraphs ==
    [k \in 1..Len(tasks) |-> [text |-> tasks[k].paragraph, segments |-> tasks[k].segments]]

\* every callback has returned: processChineseText resolves and the handler
\* answers res.json(processedData)
\* (the catch branch, status 500, is not modelled: nothing in the try block
\* throws when text is a string)
Respond ==
    /\ pc = "running"
    /\ \A k \in 1..Len(tasks) : tasks[k].at = "done"
    /\ history' = Append(history,
                     [status |-> 200,
                      body |-> [original |-> text, paragraphs |-> processedParagraphs]])
    /\ pc' = "idle"
    /\ tasks' = <<>>
    /\ UNCHANGED <<text, mockOuts, serverOut, bulkOut, failing, variant, clientVars>>

\* the characters the pinyin library may be unable to convert
FailChars == {NoChar, BU}

InitServer ==
    /\ text \in AsyncTexts
    /\ variant \in {"perChar", "bulk"}
    /\ failing \in IF variant = "bulk" THEN FailChars ELSE {NoChar}
    /\ highlight = TRUE
    /\ InitState

NextServer ==
    \/ Post
    \/ \E k \in 1..Len(tasks) : TaskStep(k)
    \/ \E k \in 1..Len(tasks) : BulkStep(k)
    \/ Respond
    \/ CallMock

SpecServer == InitServer /\ [][NextServer]_vars

(***************************************************************************)
(* js/api.js: the page.  The process button starts processChineseText,     *)
(* which awaits processText and renders what it resolves with; the calls   *)
(* in flight settle in any order.                                          *)
(***************************************************************************)
\* what chineseTextArea.value holds when the button is clicked
ClientTexts ==
    {<<>>, <<SP>>, <<REN>>, <<SP, BU, NL, REN>>, <<YI, XIN, YI, YI_IDEA>>}

\* the answer of POST /api/process to { text: t }, the handler run to its end
serverAnswer(t) ==
    IF Falsy(t) THEN noTextProvided
    ELSE [status |-> 200, body |-> processChineseText(t)]

\* an answer with a status outside 200..299: the handler's 400 and 500
errorAnswers ==
    {noTextProvided, [status |-> 500, body |-> [error |-> "Error processing text"]]}

\* response.ok
ok(response) == response.status >= 200 /\ response.status <= 299

processingPane == [kind |-> "processing", content |-> <<>>]
errorPane == [kind |-> "error", content |-> <<>>]

\* processChineseText(text) of the page, run up to its await of processText,
\* itself suspended at its await of fetch
newCall(t) == [text |-> t, at |-> "fetch", response |-> <<>>, result |-> <<>>]

\* processText with a fault injected: no fallback, the error is thrown on
fallbackRethrow(t) == [rejected |-> TRUE, data |-> Null]

\* the catch of processText: what it settles with after a failed request
fallback(t) == [rejected |-> FALSE, data |-> mockProcessTextResponse(t)]

\* the span renderProcessedText builds for one segment: its text, a pinyin and
\* a translation child when the segment has them, the class chengyu
span(segment) ==
    [text |-> segment.text,
     pinyin |-> IF segment.pinyin # "" THEN <<segment.pinyin>> ELSE <<>>,
     translation |-> IF segment.translation # "" THEN <<segment.translation>> ELSE <<>>,
     chengyu |-> segment.isChengyu /\ highlight]

\* the children renderProcessedText gives readingContent: a div per paragraph,
\* a span per segment
renderProcessedText(data) ==
    [k \in 1..Len(data.paragraphs) |->
        [n \in 1..Len(data.paragraphs[k].segments) |-> span(data.paragraphs[k].segments[n])]]

\* the click handler: with text in the textarea (after trim) it starts
\* processChineseText, which shows 'Processing...' and awaits processText;
\* otherwise it alerts
Click ==
    \E t \in ClientTexts :
        /\ text' = t
        /\ LET chineseText == trim(t)
           IN  IF chineseText # <<>>
               THEN /\ Len(calls) < MaxClicks
                    /\ pane' = processingPane
                    /\ calls' = Append(calls, newCall(chineseText))
               ELSE UNCHANGED <<calls, pane>>
        /\ UNCHANGED <<mockOuts, serverOut, bulkOut, failing, variant, pc, tasks, history,
                       highlight>>

\* the fetch of call k settles: with the server's answer, with an answer of
\* another status, or by rejecting (no response).  A response that is ok is
\* parsed next; otherwise processText throws and its catch returns the mock.
FetchSettles(k) ==
    /\ calls[k].at = "fetch"
    /\ \E response \in {<<serverAnswer(calls[k].text)>>, <<>>}
                           \cup {<<r>> : r \in errorAnswers} :
          IF response # <<>> /\ ok(response[1])
          THEN calls' = [calls EXCEPT ![k].at = "json", ![k].response = response]
          ELSE calls' = [calls EXCEPT ![k].at = "settled",
                                      ![k].response = response,
                                      ![k].result = <<fallback(calls[k].text)>>]
    /\ UNCHANGED <<text, mockOuts, serverOut, bulkOut, failing, variant, pc, tasks, history,
                   pane, highlight>>

\* response.json() of call k settles: with the parsed body, which processText
\* returns, or by rejecting, which its catch turns into the mock
JsonSettles(k) ==
    /\ calls[k].at = "json"
    /\ \E parsed \in BOOLEAN :
          calls' = [calls EXCEPT
                       ![k].at = "settled",
                       ![k].result = IF parsed
                                     THEN <<[rejected |-> FALSE,
                                             data |-> calls[k].response[1].body]>>
                                     ELSE <<fallback(calls[k].text)>>]
    /\ UNCHANGED <<text, mockOuts, serverOut, bulkOut, failing, variant, pc, tasks, history,
                   pane, highlight>>

\* processChineseText of call k resumes from its await of processText: it
\* renders the data, or in its catch shows the error message
Render(k) ==
    /\ calls[k].at = "settled"
    /\ LET r == calls[k].result[1]
       IN  pane' = IF r.rejected THEN errorPane
                   ELSE [kind |-> "rendered", content |-> renderProcessedText(r.data)]
    /\ calls' = [calls EXCEPT ![k].at = "done"]
    /\ UNCHANGED <<text, mockOuts, serverOut, bulkOut, failing, variant, pc, tasks, history,
                   highlight>>

InitClient ==
    /\ text = <<>>
    /\ failing = NoChar
    /\ variant = "perChar"
    /\ highlight \in BOOLEAN
    /\ InitState

NextClient ==
    \/ Click
    \/ \E k \in 1..Len(calls) : FetchSettles(k)
    \/ \E k \in 1..Len(calls) : JsonSettles(k)
    \/ \E k \in 1..Len(calls) : Render(k)

SpecClient == InitClient /\ [][NextClient]_vars

(***************************************************************************)
(* Notions the properties are stated with                                  *)
(***************************************************************************)
\* the characters of a paragraph's segments, in sequence order
SegmentTexts(p) == [k \in 1..Len(p.segments) |-> p.segments[k].text]

\* the 0-based positions of a paragraph's segments that carry isChengyu
FlaggedPositions(p) == {i \in 0..(Len(p.segments) - 1) : p.segments[i + 1].isChengyu}

\* every occurrence of an idiom of the list in paragraph t: <<start, length>>
Candidates(t) ==
    {<<i, Len(sampleChengyu[n])>> : n \in 1..Len(sampleChengyu), i \in 0..Len(t)} \cap
    {c \in (0..Len(t)) \X (0..Len(t)) :
        \E n \in 1..Len(sampleChengyu) :
            /\ Len(sampleChengyu[n]) = c[2]
            /\ c[1] + c[2] <= Len(t)
            /\ substring(t, c[1], c[1] + c[2]) = sampleChengyu[n]}

Positions(c) == c[1]..(c[1] + c[2] - 1)

Overlap(c, d) == Positions(c) \cap Positions(d) # {}

\* leftmost start first, the longest first among equal starts
Before(c, d) == c[1] < d[1] \/ (c[1] = d[1] /\ c[2] > d[2])

\* the greedy choice: the candidates in order, each accepted unless it overlaps
\* one accepted before it
RECURSIVE GreedyAccept(_, _)
GreedyAccept(cands, accepted) ==
    IF cands = {} THEN accepted
    ELSE LET c == CHOOSE x \in cands : \A y \in cands \ {x} : Before(x, y)
         IN  GreedyAccept(cands \ {c},
                          IF \E a \in accepted : Overlap(a, c) THEN accepted
                          ELSE accepted \cup {c})

Accepted(t) == GreedyAccept(Candidates(t), {})

Covered(cs) == UNION {Positions(c) : c \in cs}

\* the maximal newline-free runs of t, as <<first, last>> (1-based), a run
\* being a piece between two runs of newlines
Runs(t) ==
    {r \in (1..Len(t)) \X (1..Len(t)) :
        /\ r[1] <= r[2]
        /\ \A k \in r[1]..r[2] : t[k] # NL
        /\ (r[1] = 1 \/ t[r[1] - 1] = NL)
        /\ (r[2] = Len(t) \/ t[r[2] + 1] = NL)}

RECURSIVE RunsInOrder(_, _)
RunsInOrder(t, rs) ==
    IF rs = {} THEN <<>>
    ELSE LET r == CHOOSE x \in rs : \A y \in rs : x[1] <= y[1]
         IN  <<SubSeq(t, r[1], r[2])>> \o RunsInOrder(t, rs \ {r})

IsBlank(p) == \A k \in 1..Len(p) : IsWhitespace(p[k])

\* the paragraphs the segmentation is to give: the pieces that are not blank,
\* in order of appearance, each without its leading and trailing white space
TrimmedPieces(t) ==
    LET kept == SelectSeq(RunsInOrder(t, Runs(t)), LAMBDA p : ~IsBlank(p))
    IN  [k \in 1..Len(kept) |-> trim(kept[k])]

ParagraphTexts(out) == [k \in 1..Len(out.paragraphs) |-> out.paragraphs[k].text]

\* every result of a pipeline the run has so far
Outputs == {mockOuts[n] : n \in 1..Len(mockOuts)}
               \cup {serverOut[n] : n \in 1..Len(serverOut)}
               \cup {bulkOut[n] : n \in 1..Len(bulkOut)}

ParagraphsOf(outs) == UNION {{out.paragraphs[k] : k \in 1..Len(out.paragraphs)} : out \in outs}

MockParagraphs == ParagraphsOf({mockOuts[n] : n \in 1..Len(mockOuts)})
ServerParagraphs == ParagraphsOf({serverOut[n] : n \in 1..Len(serverOut)})
BulkParagraphs == ParagraphsOf({bulkOut[n] : n \in 1..Len(bulkOut)})

(***************************************************************************)
(* Properties                                                              *)
(***************************************************************************)
\* C1: round trip: in every paragraph mockProcessTextResponse returns, the
\* segment texts in sequence order are the paragraph's text, character by
\* character.
C1_RoundTrip == \A p \in MockParagraphs : SegmentTexts(p) = p.text

\* C2: in every paragraph of the mock no two idiom occurrences share a position,
\* no character is emitted more often than it occurs, and there are as many
\* segments as characters.
C2_NoDoubleProcessing ==
    \A p \in MockParagraphs :
        /\ \A c, d \in Candidates(p.text) : c # d => ~Overlap(c, d)
        /\ \A ch \in {p.text[k] : k \in 1..Len(p.text)} :
              Cardinality({k \in 1..Len(p.segments) : p.segments[k].text = ch})
                  <= Cardinality({k \in 1..Len(p.text) : p.text[k] = ch})
        /\ Len(p.segments) = Len(p.text)

\* C3: greedy leftmost-longest: in both pipelines the positions flagged as
\* idiom are exactly the positions of the candidates the greedy choice accepts.
C3_GreedyPolicy ==
    \A p \in MockParagraphs \cup ServerParagraphs :
        FlaggedPositions(p) = Covered(Accepted(p.text))

\* C4: in the server pipeline segment i is flagged if and only if position i
\* lies inside an occurrence of an idiom of the list (first, middle or last
\* character).
C4_FlagIffInsideIdiom ==
    \A p \in ServerParagraphs :
        \A i \in 0..(Len(p.text) - 1) :
            p.segments[i + 1].isChengyu <=> (\E c \in Candidates(p.text) : i \in Positions(c))

\* C5: failure isolation: in the bulk run only the segments of the character
\* the lookup fails for carry the placeholder; every other segment carries the
\* pinyin a successful lookup returns.
C5_FailureIsolation ==
    \A p \in BulkParagraphs :
        \A k \in 1..Len(p.segments) :
            p.segments[k].pinyin =
                IF p.text[k] = failing THEN "error" ELSE pinyinOf(p.text[k])

\* C7: segmentation: the paragraphs of every pipeline are the non-blank pieces
\* between the runs of newlines, in order, each without leading and trailing
\* white space and with its interior unchanged.
C7_Segmentation == \A out \in Outputs : ParagraphTexts(out) = TrimmedPieces(text)

\* C10: the mock and the server pipeline return the same paragraph texts in
\* the same order and, per paragraph, the same segment texts with the same
\* isChengyu flags.
C10_MockEqualsServer ==
    \A m \in 1..Len(mockOuts), s \in 1..Len(serverOut) :
        /\ ParagraphTexts(mockOuts[m]) = ParagraphTexts(serverOut[s])
        /\ \A k \in 1..Len(mockOuts[m].paragraphs) :
              LET a == mockOuts[m].paragraphs[k]
                  b == serverOut[s].paragraphs[k]
              IN  /\ SegmentTexts(a) = SegmentTexts(b)
                  /\ FlaggedPositions(a) = FlaggedPositions(b)

(***************************************************************************)
(* Properties of the POST handler (SpecServer)                             *)
(***************************************************************************)
\* C6 (as claimed): for every blank input text, the empty string included,
\* POST /api/process answers 200 with no paragraphs and original = the input.
C6_BlankInputNeverAnError ==
    IsBlank(text) =>
        \A n \in 1..Len(history) :
            /\ history[n].status = 200
            /\ history[n].body.paragraphs = <<>>
            /\ history[n].body.original = text

\* C6 (amended): for every non-empty blank input text POST /api/process answers
\* 200 with no paragraphs and original = the input; for the empty string it
\* answers 400 'No text provided'.
C6_BlankInput ==
    IsBlank(text) =>
        \A n \in 1..Len(history) :
            IF text = <<>>
            THEN history[n] = noTextProvided
            ELSE /\ history[n].status = 200
                 /\ history[n].body.paragraphs = <<>>
                 /\ history[n].body.original = text

\* a blank text of a space and a newline has been answered
C6_Witness ==
    /\ text = <<SP, NL>>
    /\ Len(history) >= 1
    /\ history[1].status = 200

\* the annotation of one paragraph: what its callback resolves with when it
\* runs alone
AnnotationOf(p) ==
    IF variant = "perChar" THEN processParagraph(p) ELSE processParagraphBulk(p, failing)

\* C8: whatever the interleaving of the callbacks, the k-th entry of
\* result.paragraphs is the annotation of the k-th paragraph of the input, and
\* its segments are that paragraph's characters; while the callbacks run, each
\* holds segments of its own paragraph only, the first i of them complete.
C8_ParagraphOrder ==
    LET paragraphs == splitParagraphs(text)
    IN  /\ \A n \in 1..Len(history) :
              history[n].status = 200 =>
                  /\ Len(history[n].body.paragraphs) = Len(paragraphs)
                  /\ \A k \in 1..Len(paragraphs) :
                        /\ history[n].body.paragraphs[k] = AnnotationOf(paragraphs[k])
                        /\ SegmentTexts(history[n].body.paragraphs[k]) = paragraphs[k]
        /\ pc = "running" =>
              /\ Len(tasks) = Len(paragraphs)
              /\ \A k \in 1..Len(paragraphs) :
                    /\ tasks[k].paragraph = paragraphs[k]
                    /\ Len(tasks[k].segments) >= tasks[k].i
                    /\ \A n \in 1..Len(tasks[k].segments) :
                          /\ tasks[k].segments[n].text = paragraphs[k][n]
                          /\ n <= tasks[k].i =>
                                tasks[k].segments[n] = AnnotationOf(paragraphs[k]).segments[n]

\* a request of two different paragraphs has been answered, and in the next one
\* the callback of the second paragraph has returned before that of the first
C8_Witness ==
    /\ Len(history) >= 1
    /\ history[1].status = 200
    /\ Len(history[1].body.paragraphs) = 2
    /\ history[1].body.paragraphs[1].text # history[1].body.paragraphs[2].text
    /\ pc = "running"
    /\ tasks[2].at = "done"
    /\ tasks[1].at # "done"

\* C9: idempotence: the calls made with the same text return the same result:
\* every two answers of POST /api/process are equal, and so are every two
\* results of mockProcessTextResponse.
C9_Idempotence ==
    /\ \A m, n \in 1..Len(history) : history[m] = history[n]
    /\ \A m, n \in 1..Len(mockOuts) : mockOuts[m] = mockOuts[n]

\* a text of two paragraphs has been annotated twice by each pipeline
C9_Witness ==
    /\ Len(history) >= 2
    /\ history[2].status = 200
    /\ Len(history[2].body.paragraphs) = 2
    /\ Len(mockOuts) >= 2

(***************************************************************************)
(* Properties of the page (SpecClient)                                     *)
(***************************************************************************)
\* what the pane shows once the annotation of text t is rendered, from the
\* server's result or from the mock's
AnnotationsOf(t) ==
    {renderProcessedText(processChineseText(t)),
     renderProcessedText(mockProcessTextResponse(t))}

\* C11: client fallback: processText never rejects; after a request that failed
\* or was answered with a status that is not ok it resolves with
\* mockProcessTextResponse(text), otherwise with the server's JSON (or the mock
\* when the body cannot be parsed); its result has original = text and a
\* paragraphs sequence, and the pane never shows the error message.
C11_ClientFallback ==
    /\ pane.kind # "error"
    /\ \A k \in 1..Len(calls) :
          calls[k].at \in {"settled", "done"} =>
              LET c == calls[k]
                  r == c.result[1]
              IN  /\ ~r.rejected
                  /\ IF c.response # <<>> /\ ok(c.response[1])
                     THEN \/ r.data = c.response[1].body
                          \/ r.data = mockProcessTextResponse(c.text)
                     ELSE r.data = mockProcessTextResponse(c.text)
                  /\ r.data.original = c.text
                  /\ DOMAIN r.data.paragraphs = 1..Len(r.data.paragraphs)

\* a call answered with status 500 has rendered the mock's annotation
C11_Witness ==
    \E k \in 1..Len(calls) :
        /\ calls[k].at = "done"
        /\ calls[k].response # <<>>
        /\ calls[k].response[1].status = 500
        /\ pane.kind = "rendered"
        /\ pane.content = renderProcessedText(mockProcessTextResponse(calls[k].text))

\* C12: latest request wins: once every call has completed, the pane shows the
\* annotation of the text submitted last, in whatever order the calls
\* completed.
C12_LatestRequestWins ==
    (Len(calls) >= 1 /\ \A k \in 1..Len(calls) : calls[k].at = "done") =>
        /\ pane.kind = "rendered"
        /\ pane.content \in AnnotationsOf(calls[Len(calls)].text)
====
